---- MODULE Spec2Model ----
(***************************************************************************)
(* Model of the food image scanner service: the response parser            *)
(* ImageScanner._extract_nutritional_info, ImageScanner.scan_food_image    *)
(* and the health-metric handler analyze_health_data.                      *)
(*                                                                         *)
(* A Python str is a sequence of one-character strings, so that strip,     *)
(* lower, split, startswith and slicing are computed and not assumed.      *)
(***************************************************************************)
EXTENDS Integers, Sequences, FiniteSets, TLC

(* ------------------------------ bounds -------------------------------- *)

\* Largest number of lines of a model response that is enumerated.
MaxLines == 3

(* --------------------------- Python strings --------------------------- *)

\* Python's None where a str may stand.  Every str is a sequence of
\* ONE-character strings, so this one-element sequence is no str and compares
\* unequal to every str.
None == <<"<None>">>

\* Python's None where a dictionary key may stand (current_field); keys are
\* TLA+ strings, and no key of info has this name.
NoKey == "<None>"

UpperCase == <<"A", "B", "C", "D", "E", "F", "G", "H", "I", "J", "K", "L", "M",
               "N", "O", "P", "Q", "R", "S", "T", "U", "V", "W", "X", "Y", "Z">>

LowerCase == <<"a", "b", "c", "d", "e", "f", "g", "h", "i", "j", "k", "l", "m",
               "n", "o", "p", "q", "r", "s", "t", "u", "v", "w", "x", "y", "z">>

Digits == <<"0", "1", "2", "3", "4", "5", "6", "7", "8", "9">>

\* str.isspace for one character.
IsSpace(c) == c \in {" ", "\t", "\n", "\r"}

\* str.lower for one character.
LowerChar(c) ==
    IF \E i \in 1..Len(UpperCase) : UpperCase[i] = c
    THEN LowerCase[CHOOSE i \in 1..Len(UpperCase) : UpperCase[i] = c]
    ELSE c

\* str.lower
Lower(s) == [i \in 1..Len(s) |-> LowerChar(s[i])]

RECURSIVE LStrip(_)
LStrip(s) ==
    IF s = <<>> THEN <<>>
    ELSE IF IsSpace(Head(s)) THEN LStrip(Tail(s)) ELSE s

RECURSIVE RStrip(_)
RStrip(s) ==
    IF s = <<>> THEN <<>>
    ELSE IF IsSpace(s[Len(s)]) THEN RStrip(SubSeq(s, 1, Len(s) - 1)) ELSE s

\* str.strip
Strip(s) == RStrip(LStrip(s))

\* str.startswith
StartsWith(s, p) == Len(s) >= Len(p) /\ SubSeq(s, 1, Len(p)) = p

\* s[n:]
SliceFrom(s, n) == SubSeq(s, n + 1, Len(s))

\* str.split(sep) for a one-character separator: always at least one part.
RECURSIVE SplitAcc(_, _, _)
SplitAcc(s, sep, cur) ==
    IF s = <<>> THEN <<cur>>
    ELSE IF Head(s) = sep THEN <<cur>> \o SplitAcc(Tail(s), sep, <<>>)
    ELSE SplitAcc(Tail(s), sep, Append(cur, Head(s)))

Split(s, sep) == SplitAcc(s, sep, <<>>)

\* sep.join(parts)
RECURSIVE Join(_, _)
Join(parts, sep) ==
    IF parts = <<>> THEN <<>>
    ELSE IF Len(parts) = 1 THEN parts[1]
    ELSE parts[1] \o <<sep>> \o Join(Tail(parts), sep)

(* ---------------------- _extract_nutritional_info --------------------- *)

NA == <<"N", "/", "A">>

\* The eight string-valued keys of the info dictionary.
StringFields == {"food_item", "protein", "details", "ingredients",
                 "calories", "fat", "carbs", "recipe"}

\* The keys that take continuation lines.
MultiLineFields == {"details", "ingredients", "recipe"}

\* The dictionary that _extract_nutritional_info starts from.
DefaultInfo ==
    [food_item |-> NA, protein |-> NA, details |-> NA, ingredients |-> NA,
     calories |-> NA, fat |-> NA, carbs |-> NA, recipe |-> NA, error |-> None]

\* A variant in which the calories branch leaves current_field on "calories".
FieldTableCaloriesContinues ==
    << [prefix |-> <<"f", "o", "o", "d", " ", "i", "t", "e", "m", ":">>,
        cut |-> 10, field |-> "food_item", current |-> NoKey],
       [prefix |-> <<"p", "r", "o", "t", "e", "i", "n", ":">>,
        cut |-> 8, field |-> "protein", current |-> NoKey],
       [prefix |-> <<"d", "e", "t", "a", "i", "l", "s", ":">>,
        cut |-> 8, field |-> "details", current |-> "details"],
       [prefix |-> <<"i", "n", "g", "r", "e", "d", "i", "e", "n", "t", "s", ":">>,
        cut |-> 12, field |-> "ingredients", current |-> "ingredients"],
       [prefix |-> <<"c", "a", "l", "o", "r", "i", "e", "s", ":">>,
        cut |-> 9, field |-> "calories", current |-> "calories"],
       [prefix |-> <<"f", "a", "t", ":">>,
        cut |-> 4, field |-> "fat", current |-> NoKey],
       [prefix |-> <<"c", "a", "r", "b", "s", ":">>,
        cut |-> 6, field |-> "carbs", current |-> NoKey],
       [prefix |-> <<"r", "e", "c", "i", "p", "e", ":">>,
        cut |-> 7, field |-> "recipe", current |-> "recipe"] >>

\* The if/elif chain of the loop, in source order: the prefix tested on the
\* lower-cased line, the slice offset, the key written and the value that
\* current_field is left with.
FieldTable ==
    << [prefix |-> <<"f", "o", "o", "d", " ", "i", "t", "e", "m", ":">>,
        cut |-> 10, field |-> "food_item", current |-> NoKey],
       [prefix |-> <<"p", "r", "o", "t", "e", "i", "n", ":">>,
        cut |-> 8, field |-> "protein", current |-> NoKey],
       [prefix |-> <<"d", "e", "t", "a", "i", "l", "s", ":">>,
        cut |-> 8, field |-> "details", current |-> "details"],
       [prefix |-> <<"i", "n", "g", "r", "e", "d", "i", "e", "n", "t", "s", ":">>,
        cut |-> 12, field |-> "ingredients", current |-> "ingredients"],
       [prefix |-> <<"c", "a", "l", "o", "r", "i", "e", "s", ":">>,
        cut |-> 9, field |-> "calories", current |-> NoKey],
       [prefix |-> <<"f", "a", "t", ":">>,
        cut |-> 4, field |-> "fat", current |-> NoKey],
       [prefix |-> <<"c", "a", "r", "b", "s", ":">>,
        cut |-> 6, field |-> "carbs", current |-> NoKey],
       [prefix |-> <<"r", "e", "c", "i", "p", "e", ":">>,
        cut |-> 7, field |-> "recipe", current |-> "recipe"] >>

\* Branches of the chain whose test a stripped line passes.
MatchingBranches(line) ==
    {i \in 1..Len(FieldTable) : StartsWith(Lower(line), FieldTable[i].prefix)}

\* `x or "N/A"'
OrNA(s) == IF s = <<>> THEN NA ELSE s

\* One iteration of `for line in lines', on the state
\* [info, current_field]; rawline is the element of lines.
LoopBody(st, rawline) ==
    LET line == Strip(rawline)
        hits == MatchingBranches(line)
    IN  IF line = <<>> THEN st
        ELSE IF hits # {} THEN
            LET b == FieldTable[CHOOSE i \in hits : \A j \in hits : i <= j]
            IN  [info |-> [st.info EXCEPT
                             ![b.field] = OrNA(Strip(SliceFrom(line, b.cut)))],
                 current_field |-> b.current]
        ELSE IF st.current_field # NoKey THEN
            [info |-> [st.info EXCEPT
                         ![st.current_field] =
                             IF @ = NA THEN line ELSE @ \o <<"\n">> \o line],
             current_field |-> st.current_field]
        ELSE st

\* The whole loop over a list of lines.
RECURSIVE RunLoop(_, _)
RunLoop(st, ls) ==
    IF ls = <<>> THEN st ELSE RunLoop(LoopBody(st, Head(ls)), Tail(ls))

\* `if "error" in info and not info["error"]: info["error"] = None'
NormaliseError(inf) ==
    IF inf.error = None \/ inf.error = <<>>
    THEN [inf EXCEPT !.error = None] ELSE inf

\* text.strip().split('\n')
TextLines(t) == Split(Strip(t), "\n")

\* _extract_nutritional_info(text), for a str text.
ExtractNutritionalInfo(t) ==
    NormaliseError(
        RunLoop([info |-> DefaultInfo, current_field |-> NoKey],
                TextLines(t)).info)

(* ------------------------------ inputs -------------------------------- *)

\* Lines a model response is assembled from: prefixed lines with a value,
\* with no value and with the literal value N/A, upper-case prefixes,
\* free-text lines, and a whitespace-only line.
LineSet ==
    { <<"D", "e", "t", "a", "i", "l", "s", ":", " ", "s", "o", "u", "p">>,
      <<"D", "e", "t", "a", "i", "l", "s", ":">>,
      <<"D", "e", "t", "a", "i", "l", "s", ":", " ", "N", "/", "A">>,
      <<"a", "n", "d", " ", "m", "o", "r", "e">>,
      <<" ", " ">>,
      <<"F", "o", "o", "d", " ", "I", "t", "e", "m", ":", " ", "e", "g", "g">>,
      <<"F", "A", "T", ":", " ", "3", "g">>,
      <<"R", "e", "c", "i", "p", "e", ":", " ", "b", "o", "i", "l">>,
      <<" ", "s", "t", "i", "r", " ">>,
      <<"C", "a", "l", "o", "r", "i", "e", "s", ":">> }

\* Sequences over S of length at most n.
SeqsUpTo(S, n) == UNION {[1..k -> S] : k \in 0..n}

\* Response texts: up to MaxLines lines joined by newlines.
Texts == {Join(ls, "\n") : ls \in SeqsUpTo(LineSet, MaxLines)}

(* --------------------------- scan_food_image -------------------------- *)

\* The places where scan_food_image can fail, in execution order: open() of
\* the image, _encode_image (a second open, read and base64), the
\* chat.completions.create call, response.choices[0] on an empty list, and
\* text.strip() on a content of None inside _extract_nutritional_info.
\* "none" is a run in which nothing raises.
FailStages == {"none", "open", "encode", "call", "choices", "content"}

\* str(e) of the exception raised.
ExcMessages ==
    { <<>>,
      <<"b", "o", "o", "m">>,
      <<"N", "o", " ", "s", "u", "c", "h", " ", "f", "i", "l", "e">> }

ErrorPrefix ==
    <<"E", "r", "r", "o", "r", " ", "a", "n", "a", "l", "y", "z", "i", "n", "g",
      " ", "i", "m", "a", "g", "e", ":", " ">>

UnableToProcess ==
    <<"U", "n", "a", "b", "l", "e", " ", "t", "o", " ", "p", "r", "o", "c", "e",
      "s", "s", " ", "i", "m", "a", "g", "e">>

\* The dictionary built by the except branch.
ErrorInfo(msg) ==
    [error |-> ErrorPrefix \o msg,
     food_item |-> NA, protein |-> NA, details |-> UnableToProcess,
     ingredients |-> NA, calories |-> NA, fat |-> NA, carbs |-> NA,
     recipe |-> NA]

\* A variant in which the response is parsed after the try block, so that a
\* failure of the parse leaves the method as an exception.
ScanOutcomeParseOutsideTry(env) ==
    IF env.fail = "none"
    THEN [raised |-> FALSE, ret |-> ExtractNutritionalInfo(env.content)]
    ELSE IF env.fail = "content"
    THEN [raised |-> TRUE, ret |-> ErrorInfo(env.msg)]
    ELSE [raised |-> FALSE, ret |-> ErrorInfo(env.msg)]

\* scan_food_image(image_path) in an environment env = [fail, content, msg]:
\* the whole body is inside `try ... except Exception'.
ScanOutcome(env) ==
    IF env.fail = "none"
    THEN [raised |-> FALSE, ret |-> ExtractNutritionalInfo(env.content)]
    ELSE [raised |-> FALSE, ret |-> ErrorInfo(env.msg)]

\* Environments: a run without failure has a str content; a failure at
\* "content" is a content of None; earlier failures never produce a content.
ScanEnvs ==
    {[fail |-> "none", content |-> t, msg |-> <<>>] : t \in Texts}
    \cup {[fail |-> f, content |-> None, msg |-> m] :
            f \in FailStages \ {"none"}, m \in ExcMessages}

(* ------------------------- analyze_health_data ------------------------ *)

\* A float is held in tenths: 979 is 97.9.
Tenths(n) == n * 10

\* normal_ranges; the blood pressure range is the str "80-120".
normal_ranges ==
    [oxygen_saturation |-> <<Tenths(80), Tenths(100)>>,
     pulse_rate |-> <<Tenths(50), Tenths(100)>>,
     blood_pressure |-> <<"8", "0", "-", "1", "2", "0">>,
     body_temperature |-> <<Tenths(95), Tenths(105)>>,
     blood_sugar |-> <<Tenths(70), Tenths(140)>>,
     rest_urine |-> <<Tenths(800), Tenths(2000)>>,
     water_intake |-> <<27, 37>>]

DigitValue(c) == (CHOOSE i \in 1..Len(Digits) : Digits[i] = c) - 1

IsDigit(c) == \E i \in 1..Len(Digits) : Digits[i] = c

RECURSIVE DigitsValue(_, _)
DigitsValue(s, acc) ==
    IF s = <<>> THEN acc
    ELSE DigitsValue(Tail(s), acc * 10 + DigitValue(Head(s)))

\* int(s): surrounding whitespace is ignored, one sign is allowed, and the
\* rest is a non-empty run of decimal digits; anything else is ValueError.
ParseInt(s) ==
    LET t == Strip(s)
        signed == t # <<>> /\ Head(t) \in {"-", "+"}
        body == IF signed THEN Tail(t) ELSE t
    IN  IF body # <<>> /\ \A i \in 1..Len(body) : IsDigit(body[i])
        THEN [ok |-> TRUE,
              val |-> IF signed /\ Head(t) = "-"
                      THEN 0 - DigitsValue(body, 0) ELSE DigitsValue(body, 0)]
        ELSE [ok |-> FALSE, val |-> 0]

OutOfRange(v, range) == v < range[1] \/ v > range[2]

\* The blood pressure block: "skip" (not two parts), "normal", "abnormal" or
\* "invalid" (the bare except).
BloodPressureCheck(bp) ==
    LET bp_parts == Split(bp, "/")
    IN  IF Len(bp_parts) # 2 THEN "skip"
        ELSE
          LET systolic == ParseInt(bp_parts[1])
              diastolic == ParseInt(bp_parts[2])
              bp_normal_parts == Split(normal_ranges.blood_pressure, "-")
              systolic_normal == ParseInt(bp_normal_parts[1])
              diastolic_normal == ParseInt(bp_normal_parts[2])
          IN  IF ~(systolic.ok /\ diastolic.ok /\ systolic_normal.ok
                   /\ diastolic_normal.ok)
              THEN "invalid"
              ELSE IF \/ systolic.val < systolic_normal.val
                      \/ systolic.val > diastolic_normal.val
                      \/ diastolic.val < systolic_normal.val
                      \/ diastolic.val > diastolic_normal.val
              THEN "abnormal"
              ELSE "normal"

\* The numeric keys that the handler tests and finds out of range.  The block
\* under the comment "Check oxygen saturation" tests pulse_rate;
\* oxygen_saturation is tested nowhere.
CheckedKeys(hd) ==
    {k \in {"pulse_rate", "body_temperature", "blood_sugar", "rest_urine",
            "water_intake"} :
        OutOfRange(hd[k], normal_ranges[k])}

\* The abnormal_readings dictionary built by the handler.
AbnormalReadings(hd) ==
    LET bp == BloodPressureCheck(hd.blood_pressure)
        keys == CheckedKeys(hd)
                \cup (IF bp \in {"abnormal", "invalid"}
                      THEN {"blood_pressure"} ELSE {})
    IN  [k \in keys |->
            IF k = "blood_pressure"
            THEN [value |-> hd[k], normal_range |-> normal_ranges[k],
                  invalid_format_note |-> (bp = "invalid")]
            ELSE [value |-> hd[k], normal_range |-> normal_ranges[k]]]

\* alert_level
AlertLevel(abnormal) ==
    IF \/ "oxygen_saturation" \in DOMAIN abnormal
       \/ "pulse_rate" \in DOMAIN abnormal
       \/ "blood_pressure" \in DOMAIN abnormal
    THEN "Critical"
    ELSE IF DOMAIN abnormal # {} THEN "Warning"
    ELSE "Normal"

\* The handler of health_analysis.py: no metric is tested.
StubAbnormalReadings(hd) == [k \in {} |-> hd[k]]

SampleRecommendation ==
    <<"S", "a", "m", "p", "l", "e", " ", "r", "e", "c", "o", "m", "m", "e", "n",
      "d", "a", "t", "i", "o", "n">>

\* Submitted blood pressure strings: normal, out of range, unparsable, one
\* part, three parts, padded with spaces, negative.
BloodPressures ==
    { <<"1", "0", "0", "/", "9", "0">>,
      <<"1", "2", "0", "/", "8", "0">>,
      <<"1", "3", "0", "/", "8", "5">>,
      <<"1", "0", "0", "/", "7", "0">>,
      <<"a", "b", "/", "8", "0">>,
      <<"1", "2", "0">>,
      <<"1", "2", "0", "/", "8", "0", "/", "1">>,
      <<" ", "1", "1", "0", " ", "/", " ", "9", "0", " ">>,
      <<"-", "5", "/", "9", "0">> }

\* Submitted requests (floats in tenths): each metric below, inside and above
\* its range, oxygen saturation also on both ends of the range.
HealthInputs ==
    [oxygen_saturation : {799, 800, 1000, 1001},
     pulse_rate : {499, 720, 1001},
     blood_pressure : BloodPressures,
     body_temperature : {949, 986, 1051},
     blood_sugar : {699, 1000, 1401},
     rest_urine : {7999, 12000, 20001},
     water_intake : {26, 30, 38}]

\* message.content of the completion; None makes .strip() raise.
Replies ==
    { <<" ", "R", "e", "s", "t", ".", "\n">>, None }

(* ------------------------------- state -------------------------------- *)

VARIABLES
    text,           \* _extract_nutritional_info: the argument
    lines,          \* the list the loop runs over
    idx,            \* position of the loop in lines (1-based)
    info,           \* the info dictionary
    current_field,  \* the local current_field
    pc,             \* "call", "loop" or "return"
    scan,           \* scan_food_image: [state, env, out]
    health          \* analyze_health_data: [state, route, hd, ...]

vars == <<text, lines, idx, info, current_field, pc, scan, health>>

extractVars == <<text, lines, idx, info, current_field, pc>>

ExtractIdle ==
    /\ text = <<>>
    /\ lines = <<>>
    /\ idx = 1
    /\ info = DefaultInfo
    /\ current_field = NoKey
    /\ pc = "idle"

ScanIdle == scan = [state |-> "idle"]

HealthIdle == health = [state |-> "idle"]

(* ----------------- _extract_nutritional_info, stepwise ---------------- *)

InitExtract ==
    /\ text \in Texts
    /\ lines = <<>>
    /\ idx = 1
    /\ info = DefaultInfo
    /\ current_field = NoKey
    /\ pc = "call"
    /\ ScanIdle
    /\ HealthIdle

\* Entry: build info, split the text, clear current_field.
ExtractEnter ==
    /\ pc = "call"
    /\ lines' = TextLines(text)
    /\ idx' = 1
    /\ info' = DefaultInfo
    /\ current_field' = NoKey
    /\ pc' = "loop"
    /\ UNCHANGED <<text, scan, health>>

\* One loop iteration.
ExtractLine ==
    /\ pc = "loop"
    /\ idx <= Len(lines)
    /\ LET st == LoopBody([info |-> info, current_field |-> current_field],
                          lines[idx])
       IN  /\ info' = st.info
           /\ current_field' = st.current_field
    /\ idx' = idx + 1
    /\ UNCHANGED <<text, lines, pc, scan, health>>

\* Loop exhausted: normalise the error key and return info.
ExtractReturn ==
    /\ pc = "loop"
    /\ idx > Len(lines)
    /\ info' = NormaliseError(info)
    /\ pc' = "return"
    /\ UNCHANGED <<text, lines, idx, current_field, scan, health>>

NextExtract == ExtractEnter \/ ExtractLine \/ ExtractReturn

SpecExtract == InitExtract /\ [][NextExtract]_vars

(* ----------------------- scan_food_image, as a call ------------------- *)

InitScan == ExtractIdle /\ ScanIdle /\ HealthIdle

\* One call of ImageScanner.scan_food_image.
ScanFoodImage ==
    /\ scan.state = "idle"
    /\ \E env \in ScanEnvs :
         scan' = [state |-> "done", env |-> env, out |-> ScanOutcome(env)]
    /\ UNCHANGED <<extractVars, health>>

NextScan == ScanFoodImage

SpecScan == InitScan /\ [][NextScan]_vars

(* ------------------------- analyze_health_data ------------------------ *)

InitHealth == ExtractIdle /\ ScanIdle /\ HealthIdle

\* POST /api/health/analyze.  The get_openai_client dependency raises when no
\* API key is configured; the completion call or the .strip() of its content
\* may raise, which the handler turns into HTTPException(500).
AnalyzeHealthData ==
    /\ health.state = "idle"
    /\ \E hd \in HealthInputs, api_key \in BOOLEAN, call_ok \in BOOLEAN,
          reply \in Replies :
         LET abnormal_readings == AbnormalReadings(hd)
             alert_level == AlertLevel(abnormal_readings)
         IN  health' =
               IF ~api_key
               THEN [state |-> "done", route |-> "/api/health/analyze",
                     hd |-> hd, status |-> 500, ran |-> FALSE]
               ELSE IF ~call_ok \/ reply = None
               THEN [state |-> "done", route |-> "/api/health/analyze",
                     hd |-> hd, status |-> 500, ran |-> TRUE,
                     abnormal_readings |-> abnormal_readings,
                     alert_level |-> alert_level]
               ELSE [state |-> "done", route |-> "/api/health/analyze",
                     hd |-> hd, status |-> 200, ran |-> TRUE,
                     abnormal_readings |-> abnormal_readings,
                     alert_level |-> alert_level,
                     recommendation |-> Strip(reply)]
    /\ UNCHANGED <<extractVars, scan>>

\* POST /analyze/ of health_analysis.py.
AnalyzeHealthDataStub ==
    /\ health.state = "idle"
    /\ \E hd \in HealthInputs, api_key \in BOOLEAN :
         health' =
           IF ~api_key
           THEN [state |-> "done", route |-> "/analyze/",
                 hd |-> hd, status |-> 500, ran |-> FALSE]
           ELSE [state |-> "done", route |-> "/analyze/",
                 hd |-> hd, status |-> 200, ran |-> TRUE,
                 abnormal_readings |-> StubAbnormalReadings(hd),
                 recommendation |-> SampleRecommendation]
    /\ UNCHANGED <<extractVars, scan>>

NextHealth == AnalyzeHealthData \/ AnalyzeHealthDataStub

SpecHealth == InitHealth /\ [][NextHealth]_vars

(* ============================== properties ============================ *)

(* ----------------------------- C8 ------------------------------------- *)

\* C8: whenever POST /api/health/analyze answers a request whose
\* oxygen_saturation is below 80 or above 100, abnormal_readings has an
\* "oxygen_saturation" entry and the alert level is "Critical".
C8_OxygenSaturationChecked ==
    (/\ health.state = "done"
     /\ health.route = "/api/health/analyze"
     /\ health.status = 200
     /\ \/ health.hd.oxygen_saturation < Tenths(80)
        \/ health.hd.oxygen_saturation > Tenths(100))
    => /\ "oxygen_saturation" \in DOMAIN health.abnormal_readings
       /\ health.alert_level = "Critical"

(* ----------------------------- C9 ------------------------------------- *)

NineKeys == StringFields \cup {"error"}

\* C9: scan_food_image never raises.  When opening or encoding the file, the
\* model call or the parsing of the response fails, it returns a dictionary
\* whose "error" is a non-empty message and whose food_item, protein,
\* ingredients, calories, fat, carbs and recipe are "N/A"; otherwise it
\* returns a dictionary with the same nine keys and "error" None.
C9_ScanNeverRaises ==
    scan.state = "done" =>
        /\ ~scan.out.raised
        /\ DOMAIN scan.out.ret = NineKeys
        /\ scan.env.fail # "none" =>
              /\ scan.out.ret.error # None
              /\ scan.out.ret.error # <<>>
              /\ \A f \in StringFields \ {"details"} : scan.out.ret[f] = NA
        /\ scan.env.fail = "none" => scan.out.ret.error = None

\* A call in which the response could not be parsed came back with the error
\* dictionary.
C9_Witness ==
    /\ scan.state = "done"
    /\ scan.env.fail = "content"
    /\ ~scan.out.raised
    /\ scan.out.ret.error # None
    /\ scan.out.ret.recipe = NA

(* ----------------------------- C10 ------------------------------------ *)

IsPrefixed(rawline) == MatchingBranches(Strip(rawline)) # {}

\* The key named by the last prefixed line among ls[1..k]; NoKey if none.
MostRecentField(ls, k) ==
    LET P == {j \in 1..k : IsPrefixed(ls[j])}
    IN  IF P = {} THEN NoKey
        ELSE LET last == CHOOSE j \in P : \A i \in P : i <= j
                 hits == MatchingBranches(Strip(ls[last]))
             IN  FieldTable[CHOOSE i \in hits : \A j \in hits : i <= j].field

\* The loop is about to consume lines[idx], a non-blank line with no prefix.
AtFreeLine ==
    /\ pc = "loop"
    /\ idx <= Len(lines)
    /\ Strip(lines[idx]) # <<>>
    /\ ~IsPrefixed(lines[idx])

NoEmptyField == \A f \in StringFields : info[f] # <<>>

\* The statement as written: the free line is joined with a newline to the
\* field whenever that field is details, ingredients or recipe.
FreeLineAlwaysJoined ==
    (AtFreeLine /\ idx' = idx + 1) =>
        LET f == MostRecentField(lines, idx - 1)
            line == Strip(lines[idx])
        IN  IF f \in MultiLineFields
            THEN info' = [info EXCEPT ![f] = @ \o <<"\n">> \o line]
            ELSE info' = info

\* C10 as stated: does not hold (see C10_FreeLines).
C10_Original == [][FreeLineAlwaysJoined]_vars /\ []NoEmptyField

\* As the code has it: a field still holding "N/A" is replaced by the line.
FreeLineJoinedOrReplacesNA ==
    (AtFreeLine /\ idx' = idx + 1) =>
        LET f == MostRecentField(lines, idx - 1)
            line == Strip(lines[idx])
        IN  IF f \in MultiLineFields
            THEN info' = [info EXCEPT
                            ![f] = IF @ = NA THEN line
                                   ELSE @ \o <<"\n">> \o line]
            ELSE info' = info

\* C10, amended: a non-blank line with none of the eight prefixes is added to
\* the field named by the most recent prefixed line if and only if that field
\* is details, ingredients or recipe; it is joined with a newline to the
\* field's value, unless the field holds "N/A", in which case the line becomes
\* the value.  After food item, protein, calories, fat or carbs, or before any
\* prefixed line, it is discarded and no field changes.  No field is ever the
\* empty string.
C10_FreeLines == [][FreeLineJoinedOrReplacesNA]_vars /\ []NoEmptyField

\* The loop has just joined a free line to a multi-line field.
C10_Witness ==
    /\ pc = "loop"
    /\ idx > 2
    /\ Strip(lines[idx - 1]) # <<>>
    /\ ~IsPrefixed(lines[idx - 1])
    /\ MostRecentField(lines, idx - 2) \in MultiLineFields
    /\ LET f == MostRecentField(lines, idx - 2)
       IN  \E i \in 1..Len(info[f]) : info[f][i] = "\n"

====
